---- MODULE Spec2Model ----
(***************************************************************************)
(* voicepeak-srt (src/main.rs): a directory of numbered .wav/.txt pairs is *)
(* turned into one .srt file.  main runs extract_wav_and_txt, then         *)
(* make_srt_blocks, then make_srt; every failure is a panic.               *)
(*                                                                         *)
(* Strings are sequences of one-character strings.  A Duration is the pair *)
(* (secs, nanos) that std::time::Duration stores.                          *)
(***************************************************************************)
EXTENDS Integers, Sequences, FiniteSets, TLC

VARIABLES
    dir,                \* entries of the input directory: [name, isFile]
    listable,           \* whether fs::read_dir(path) succeeds
    dest0,              \* the destination path before the run
    dest,               \* the destination path now: [exists, content]
    pc,                 \* position of the single thread of control
    outcome,            \* "Running", "Success" (exit 0) or the failure kind of the panic
    files,              \* Vec<PathBuf> returned by extract_wav_and_txt
    i,                  \* loop counter of make_srt_blocks
    wav_path,           \* the audio file of the current iteration
    txt_path,           \* the text file of the current iteration
    total_time,         \* the running clock
    start_time_string,  \* locals of the current iteration
    end_time_string,
    blocks,             \* Vec<SrtBlock>
    output_srt,         \* the String built by make_srt
    handles             \* open file handles: <<kind, name>>

vars == <<dir, listable, dest0, dest, pc, outcome, files, i, wav_path, txt_path,
          total_time, start_time_string, end_time_string, blocks, output_srt, handles>>

\* ------------------------------------------------------------------ bounds
\* Largest number of entries in the input directory.
MaxEntries == 4
\* Cap on the loop counter of make_srt_blocks (never reached by the code's own exit).
MaxIter == 3

\* ----------------------------------------------------------------- strings
NL == "\n"
SP == " "
Digits == <<"0", "1", "2", "3", "4", "5", "6", "7", "8", "9">>
WavExt == <<"w", "a", "v">>
TxtExt == <<"t", "x", "t">>
NoString == <<>>

\* {} of an unsigned integer: its decimal digits.
RECURSIVE Decimal(_)
Decimal(n) ==
    IF n < 10 THEN <<Digits[n + 1]>>
    ELSE Decimal(n \div 10) \o <<Digits[(n % 10) + 1]>>

\* {:0w}: zero padding to a minimum width, never a truncation.
RECURSIVE PadZero(_, _)
PadZero(s, w) == IF Len(s) >= w THEN s ELSE PadZero(<<"0">> \o s, w)

\* format!("{:03}", i)
Format03(n) == PadZero(Decimal(n), 3)

\* str::starts_with
StartsWith(s, p) == Len(p) <= Len(s) /\ SubSeq(s, 1, Len(p)) = p

\* Position of the last "." of a name, 0 when there is none.
LastDot(name) ==
    LET ds == {k \in 1..Len(name) : name[k] = "."}
    IN  IF ds = {} THEN 0 ELSE CHOOSE k \in ds : \A m \in ds : m <= k

\* Path::extension: None (<<>>) without a dot or with only a leading dot,
\* otherwise Some(<<the part after the last dot>>).
Extension(name) ==
    LET d == LastDot(name)
    IN  IF d <= 1 THEN <<>> ELSE <<SubSeq(name, d + 1, Len(name))>>

IsWav(name) == Extension(name) = <<WavExt>>
IsTxt(name) == Extension(name) = <<TxtExt>>

\* char::is_whitespace on the characters that occur here.
IsSpace(c) == c \in {NL, SP}

\* str::trim_end
RECURSIVE TrimEnd(_)
TrimEnd(s) ==
    IF s = <<>> THEN s
    ELSE IF IsSpace(s[Len(s)]) THEN TrimEnd(SubSeq(s, 1, Len(s) - 1))
    ELSE s

\* --------------------------------------------------------------- durations
ZeroDuration == [secs |-> 0, nanos |-> 0]

\* Duration + Duration
DurationAdd(a, b) ==
    LET n == a.nanos + b.nanos
    IN  [secs  |-> a.secs + b.secs + (n \div 1000000000),
         nanos |-> n % 1000000000]

\* Duration::from_secs_f64(samples as f64 / sampling_rate as f64), for sampling
\* rates that divide 10^9 (the quotient is then a whole number of nanoseconds).
WavDuration(samples, rate) ==
    [secs  |-> samples \div rate,
     nanos |-> (samples % rate) * (1000000000 \div rate)]

\* format!("{:02}:{:02}:{:02},{:03}", secs/3600, (secs%3600)/60, secs%60, subsec_millis)
FormatTime(d) ==
    PadZero(Decimal(d.secs \div 3600), 2) \o <<":">> \o
    PadZero(Decimal((d.secs % 3600) \div 60), 2) \o <<":">> \o
    PadZero(Decimal(d.secs % 60), 2) \o <<",">> \o
    PadZero(Decimal(d.nanos \div 1000000), 3)

\* ------------------------------------------------------------------ inputs
File(n) == [name |-> n, isFile |-> TRUE]
Folder(n) == [name |-> n, isFile |-> FALSE]

\* The directory entries a run may find.
Universe ==
    { File(<<"0","0","0",".","w","a","v">>),
      File(<<"0","0","0",".","t","x","t">>),
      File(<<"0","0","1",".","w","a","v">>),
      File(<<"0","0","1",".","t","x","t">>),
      File(<<"0","0","2",".","w","a","v">>),
      File(<<"0","0","2",".","t","x","t">>),
      File(<<"0","0","0","b",".","w","a","v">>),
      File(<<"0","0","1",".","m","p","3">>),
      File(<<"m","e","m","o">>),
      Folder(<<"0","0","3",".","w","a","v">>) }

\* What wav::read finds in an audio file.
Wav(s, r) == [readable |-> TRUE, bits |-> 16, samples |-> s, rate |-> r]
WavContents ==
    { [readable |-> FALSE, bits |-> 16, samples |-> 0, rate |-> 1000],
      [readable |-> TRUE, bits |-> 8, samples |-> 1000, rate |-> 1000],
      Wav(1000, 0),
      Wav(0, 1000),
      Wav(7288, 1000),
      Wav(6434, 1000),
      Wav(4, 8000),
      Wav(3600500, 1000) }

\* What fs::read_to_string finds in a text file: a text, or bytes that are not UTF-8.
InvalidUtf8 == <<"invalid">>
Texts ==
    { <<>>,
      <<"a">>,
      <<"a", NL>>,
      <<NL, "a">>,
      <<"a", SP>>,
      <<SP, "a">>,
      <<"a", NL, "b">>,
      <<"a", NL, NL, "b">> }
TxtContents == Texts \cup {InvalidUtf8}

OldContent == <<"o", "l", "d">>
Absent == [exists |-> FALSE, content |-> <<>>]

\* ------------------------------------------------------ extract_wav_and_txt
\* The filter of the read_dir chain: regular files whose extension is wav or txt.
Listing(d) == {e.name : e \in {x \in d : x.isFile /\ (IsWav(x.name) \/ IsTxt(x.name))}}

NWav(fs) == Cardinality({f \in fs : IsWav(f)})
NTxt(fs) == Cardinality({f \in fs : IsTxt(f)})

\* Mutant of Validate: the comparison of the two counts is left out.
ValidateSkippingCount(fs) ==
    IF NWav(fs) = 0 THEN "MissingAudio"
    ELSE IF NTxt(fs) = 0 THEN "MissingText"
    ELSE "ok"

\* Mutant of Validate: the text files are counted before the audio files.
ValidateTextFirst(fs) ==
    IF NTxt(fs) = 0 THEN "MissingText"
    ELSE IF NWav(fs) = 0 THEN "MissingAudio"
    ELSE IF NWav(fs) # NTxt(fs) THEN "CountMismatch"
    ELSE "ok"

\* The three checks after the scan, in the order of the code.
Validate(fs) ==
    IF NWav(fs) = 0 THEN "MissingAudio"
    ELSE IF NTxt(fs) = 0 THEN "MissingText"
    ELSE IF NWav(fs) # NTxt(fs) THEN "CountMismatch"
    ELSE "ok"

\* A panic: the process unwinds, every handle is dropped, the exit status is non-zero.
Abort(kind) ==
    /\ pc' = "aborted"
    /\ outcome' = kind
    /\ handles' = {}

\* fs::read_dir(path).expect(..)
ExtractOpenDir ==
    /\ pc = "start"
    /\ IF listable
       THEN /\ pc' = "listing"
            /\ handles' = handles \cup {<<"dir", NoString>>}
            /\ UNCHANGED outcome
       ELSE Abort("PathNotFound")
    /\ UNCHANGED <<dir, listable, dest0, dest, files, i, wav_path, txt_path, total_time,
                   start_time_string, end_time_string, blocks, output_srt>>

\* Mutant of ExtractCollect: the destination is created as soon as discovery passes.
ExtractCollectCreatingOutput ==
    /\ pc = "listing"
    /\ files' = Listing(dir)
    /\ IF Validate(Listing(dir)) = "ok"
       THEN /\ pc' = "assemble"
            /\ handles' = handles \ {<<"dir", NoString>>}
            /\ dest' = [exists |-> TRUE, content |-> <<>>]
            /\ UNCHANGED outcome
       ELSE Abort(Validate(Listing(dir))) /\ UNCHANGED dest
    /\ UNCHANGED <<dir, listable, dest0, i, wav_path, txt_path, total_time,
                   start_time_string, end_time_string, blocks, output_srt>>

\* The rest of extract_wav_and_txt: collect (the ReadDir is dropped), count, validate.
ExtractCollect ==
    /\ pc = "listing"
    /\ files' = Listing(dir)
    /\ IF Validate(Listing(dir)) = "ok"
       THEN /\ pc' = "assemble"
            /\ handles' = handles \ {<<"dir", NoString>>}
            /\ UNCHANGED outcome
       ELSE Abort(Validate(Listing(dir)))
    /\ UNCHANGED <<dir, listable, dest0, dest, i, wav_path, txt_path, total_time,
                   start_time_string, end_time_string, blocks, output_srt>>

\* ---------------------------------------------------------- make_srt_blocks
\* target_files of iteration n.
TargetFiles(fs, n) == {f \in fs : StartsWith(f, Format03(n))}

\* Mutant of BlockIndex: the 0-based counter is used as the index.
BlockIndexZeroBased(n) == n

\* index: i + 1
BlockIndex(n) == n + 1

\* end_time_duration = total_time.add(wav_duration)
EndTime(t, d) == DurationAdd(t, d)

\* Mutant of AdvanceClock: the clock is not advanced.
AdvanceClockForgotten(t, d) == t

\* total_time = total_time.add(wav_duration)
AdvanceClock(t, d) == DurationAdd(t, d)

\* Mutant of LoopBreak: an unmatched prefix is skipped instead of ending the loop.
LoopBreakContinuing ==
    /\ pc = "assemble"
    /\ TargetFiles(files, i) = {}
    /\ i < MaxIter
    /\ i' = i + 1
    /\ UNCHANGED <<dir, listable, dest0, dest, pc, outcome, files, wav_path, txt_path,
                   total_time, start_time_string, end_time_string, blocks, output_srt,
                   handles>>

\* if target_files.len() == 0 { break; }  and the return of blocks to main.
LoopBreak ==
    /\ pc = "assemble"
    /\ TargetFiles(files, i) = {}
    /\ pc' = "make_srt"
    /\ UNCHANGED <<dir, listable, dest0, dest, outcome, files, i, wav_path, txt_path,
                   total_time, start_time_string, end_time_string, blocks, output_srt,
                   handles>>

\* find the wav of the iteration (the first in listing order, which the file
\* system decides) and File::open it.
OpenWav ==
    /\ pc = "assemble"
    /\ i < MaxIter
    /\ TargetFiles(files, i) # {}
    /\ LET wavs == {f \in TargetFiles(files, i) : IsWav(f)}
       IN  IF wavs = {}
           THEN Abort("UnpairedBlock") /\ UNCHANGED wav_path
           ELSE \E w \in wavs : \E opened \in BOOLEAN :
                  IF opened
                  THEN /\ wav_path' = w
                       /\ handles' = handles \cup {<<"wav", w>>}
                       /\ pc' = "wav_open"
                       /\ UNCHANGED outcome
                  ELSE Abort("AudioDecodeError") /\ UNCHANGED wav_path
    /\ UNCHANGED <<dir, listable, dest0, dest, files, i, txt_path, total_time,
                   start_time_string, end_time_string, blocks, output_srt>>

\* wav::read, the two time strings and the advance of the clock.
ReadWav ==
    /\ pc = "wav_open"
    /\ \E c \in WavContents :
         IF ~c.readable \/ c.bits # 16 \/ c.rate = 0
         THEN /\ Abort("AudioDecodeError")
              /\ UNCHANGED <<total_time, start_time_string, end_time_string>>
         ELSE /\ start_time_string' = FormatTime(total_time)
              /\ end_time_string' = FormatTime(EndTime(total_time, WavDuration(c.samples, c.rate)))
              /\ total_time' = AdvanceClock(total_time, WavDuration(c.samples, c.rate))
              /\ pc' = "find_txt"
              /\ UNCHANGED <<outcome, handles>>
    /\ UNCHANGED <<dir, listable, dest0, dest, files, i, wav_path, txt_path, blocks,
                   output_srt>>

\* find the txt of the iteration; fs::read_to_string opens it (inp_file is still
\* in scope).
OpenTxt ==
    /\ pc = "find_txt"
    /\ LET txts == {f \in TargetFiles(files, i) : IsTxt(f)}
       IN  IF txts = {}
           THEN Abort("UnpairedBlock") /\ UNCHANGED txt_path
           ELSE \E t \in txts : \E opened \in BOOLEAN :
                  IF opened
                  THEN /\ txt_path' = t
                       /\ handles' = handles \cup {<<"txt", t>>}
                       /\ pc' = "txt_open"
                       /\ UNCHANGED outcome
                  ELSE Abort("TextReadError") /\ UNCHANGED txt_path
    /\ UNCHANGED <<dir, listable, dest0, dest, files, i, wav_path, total_time,
                   start_time_string, end_time_string, blocks, output_srt>>

\* Mutant of HandlesAfterIteration: the audio handle outlives the iteration.
HandlesAfterIterationLeakingWav(h, w, t) == h \ {<<"txt", t>>}

\* Handles left open when an iteration ends: read_to_string has closed the text
\* file, inp_file goes out of scope.
HandlesAfterIteration(h, w, t) == h \ {<<"txt", t>>, <<"wav", w>>}

\* The rest of read_to_string, blocks.push and the end of the loop body.
ReadTxtPush ==
    /\ pc = "txt_open"
    /\ \E text \in TxtContents :
         IF text = InvalidUtf8
         THEN /\ Abort("TextReadError")
              /\ UNCHANGED <<i, wav_path, txt_path, start_time_string, end_time_string,
                             blocks>>
         ELSE /\ blocks' = Append(blocks, [index |-> BlockIndex(i),
                                           start_time_string |-> start_time_string,
                                           end_time_string |-> end_time_string,
                                           text |-> text])
              /\ handles' = HandlesAfterIteration(handles, wav_path, txt_path)
              /\ i' = i + 1
              /\ wav_path' = NoString
              /\ txt_path' = NoString
              /\ start_time_string' = NoString
              /\ end_time_string' = NoString
              /\ pc' = "assemble"
              /\ UNCHANGED outcome
    /\ UNCHANGED <<dir, listable, dest0, dest, files, total_time, output_srt>>

\* ------------------------------------------------------------------ make_srt
Arrow == <<SP, "-", "-", ">", SP>>

\* format!("{}\n{} --> {}\n{}\n\n", index, start_time_string, end_time_string, text)
RenderBlock(b) ==
    Decimal(b.index) \o <<NL>> \o b.start_time_string \o Arrow \o b.end_time_string
    \o <<NL>> \o b.text \o <<NL, NL>>

\* The push_str loop.
RECURSIVE RenderAll(_)
RenderAll(bs) == IF bs = <<>> THEN <<>> ELSE RenderBlock(Head(bs)) \o RenderAll(Tail(bs))

\* Mutant of Written: the blob is written without the trim.
WrittenUntrimmed(blob) == blob

\* output_srt.trim_end().as_bytes()
Written(blob) == TrimEnd(blob)

\* The push_str loop and File::create(path).unwrap()
MakeSrtCreate ==
    /\ pc = "make_srt"
    /\ output_srt' = RenderAll(blocks)
    /\ \E created \in BOOLEAN :
         IF created
         THEN /\ dest' = [exists |-> TRUE, content |-> <<>>]
              /\ handles' = handles \cup {<<"out", NoString>>}
              /\ pc' = "write"
              /\ UNCHANGED outcome
         ELSE Abort("WriteError") /\ UNCHANGED dest
    /\ UNCHANGED <<dir, listable, dest0, files, i, wav_path, txt_path, total_time,
                   start_time_string, end_time_string, blocks>>

\* let _ = file.write_all(..): the result is discarded; then file is dropped and
\* main returns.
WriteAll ==
    /\ pc = "write"
    /\ \E written \in BOOLEAN :
         IF written
         THEN dest' = [exists |-> TRUE, content |-> Written(output_srt)]
         ELSE \E n \in {0, Len(Written(output_srt)) \div 2} :
                dest' = [exists |-> TRUE, content |-> SubSeq(Written(output_srt), 1, n)]
    /\ handles' = handles \ {<<"out", NoString>>}
    /\ pc' = "done"
    /\ outcome' = "Success"
    /\ UNCHANGED <<dir, listable, dest0, files, i, wav_path, txt_path, total_time,
                   start_time_string, end_time_string, blocks, output_srt>>

\* ------------------------------------------------------------ specification
Init ==
    /\ dir \in {d \in SUBSET Universe : Cardinality(d) <= MaxEntries}
    /\ listable \in BOOLEAN
    /\ dest0 \in {Absent, [exists |-> TRUE, content |-> OldContent]}
    /\ dest = dest0
    /\ pc = "start"
    /\ outcome = "Running"
    /\ files = {}
    /\ i = 0
    /\ wav_path = NoString
    /\ txt_path = NoString
    /\ total_time = ZeroDuration
    /\ start_time_string = NoString
    /\ end_time_string = NoString
    /\ blocks = <<>>
    /\ output_srt = <<>>
    /\ handles = {}

Next ==
    \/ ExtractOpenDir
    \/ ExtractCollect
    \/ LoopBreak
    \/ OpenWav
    \/ ReadWav
    \/ OpenTxt
    \/ ReadTxtPush
    \/ MakeSrtCreate
    \/ WriteAll

Spec == Init /\ [][Next]_vars

\* The single thread of control keeps running until the process exits.
FairSpec == Spec /\ WF_vars(Next)

\* ------------------------------------------------- reading an .srt file back
\* First position at which sep occurs in s, 0 when it does not.
IndexOf(s, sep) ==
    LET at == {k \in 1..(Len(s) - Len(sep) + 1) : SubSeq(s, k, k + Len(sep) - 1) = sep}
    IN  IF at = {} THEN 0 ELSE CHOOSE k \in at : \A m \in at : k <= m

\* s split at every occurrence of sep, left to right.
RECURSIVE SplitOn(_, _)
SplitOn(s, sep) ==
    LET k == IndexOf(s, sep)
    IN  IF k = 0 THEN <<s>>
        ELSE <<SubSeq(s, 1, k - 1)>> \o SplitOn(SubSeq(s, k + Len(sep), Len(s)), sep)

IsDigits(s) == s # <<>> /\ \A k \in 1..Len(s) : \E d \in 1..10 : Digits[d] = s[k]

DigitValue(c) == (CHOOSE d \in 1..10 : Digits[d] = c) - 1

RECURSIVE ParseDecimal(_)
ParseDecimal(s) ==
    IF Len(s) = 1 THEN DigitValue(s[1])
    ELSE 10 * ParseDecimal(SubSeq(s, 1, Len(s) - 1)) + DigitValue(s[Len(s)])

\* What a part that is no block parses to.
BadBlock == [index |-> 0, start_time_string |-> NoString, end_time_string |-> NoString,
             text |-> NoString]

\* One part: the index line, the line "start --> end", then the text.
ParsePart(part) ==
    LET n1 == IndexOf(part, <<NL>>)
        indexLine == SubSeq(part, 1, n1 - 1)
        rest == SubSeq(part, n1 + 1, Len(part))
        n2 == IndexOf(rest, <<NL>>)
        timeLine == SubSeq(rest, 1, n2 - 1)
        a == IndexOf(timeLine, Arrow)
    IN  IF n1 = 0 \/ n2 = 0 \/ a = 0 \/ ~IsDigits(indexLine) THEN BadBlock
        ELSE [index |-> ParseDecimal(indexLine),
              start_time_string |-> SubSeq(timeLine, 1, a - 1),
              end_time_string |-> SubSeq(timeLine, a + Len(Arrow), Len(timeLine)),
              text |-> SubSeq(rest, n2 + 1, Len(rest))]

\* The blob split on blank lines, each part parsed; an empty blob holds no block.
Reparse(blob) ==
    IF blob = <<>> THEN <<>>
    ELSE LET parts == SplitOn(blob, <<NL, NL>>)
         IN  [k \in 1..Len(parts) |-> ParsePart(parts[k])]

\* ------------------------------------------------------------------- claims
DiscoveryFailures == {"PathNotFound", "MissingAudio", "MissingText", "CountMismatch"}
AssemblyFailures == {"UnpairedBlock", "AudioDecodeError", "TextReadError"}

\* make_srt_blocks has returned its blocks to main.
AssemblyReturned ==
    \/ pc \in {"make_srt", "write", "done"}
    \/ pc = "aborted" /\ outcome = "WriteError"

\* The prefix of iteration n written out (n < 10).
ExpectedPrefix(n) == <<"0", "0", Digits[n + 1]>>
Matched(n) == {f \in files : StartsWith(f, ExpectedPrefix(n))}

\* C1 as stated: whenever discovery passed and make_srt_blocks returned, the number
\* of blocks equals the number of audio files and the number of text files.
C1_BlockCountEqualsFileCount ==
    AssemblyReturned => Len(blocks) = NWav(files) /\ Len(blocks) = NTxt(files)

\* C1 amended: whenever discovery passed and make_srt_blocks returned, there are as
\* many audio files as text files, at least one of each, and the number of blocks is
\* at most that number; it equals it exactly when every audio file starts with the
\* prefix of one of the blocks and no two audio files share such a prefix.
C1_BlockCountAtMostFileCount ==
    AssemblyReturned =>
        /\ NWav(files) = NTxt(files)
        /\ NWav(files) >= 1
        /\ Len(blocks) <= NWav(files)
        /\ (Len(blocks) = NWav(files)) <=>
              \A f \in {g \in files : IsWav(g)} :
                 \E n \in 0..(Len(blocks) - 1) :
                    /\ f \in Matched(n)
                    /\ \A g \in Matched(n) : IsWav(g) => g = f

\* C1 witness: a run that returned fewer blocks than there are audio files.
C1_Witness == AssemblyReturned /\ Len(blocks) >= 1 /\ Len(blocks) < NWav(files)

ZeroTimeString == <<"0","0",":","0","0",":","0","0",",","0","0","0">>

\* C2: the first block starts at 00:00:00,000, every later block starts where the
\* block before it ends, and between iterations the running clock is zero before the
\* first block and the end of the last block after it.
C2_TimelineContiguity ==
    /\ blocks # <<>> => blocks[1].start_time_string = ZeroTimeString
    /\ \A n \in 2..Len(blocks) :
          blocks[n].start_time_string = blocks[n - 1].end_time_string
    /\ blocks = <<>> /\ pc \in {"start", "listing", "assemble", "wav_open"}
          => total_time = ZeroDuration
    /\ blocks # <<>> /\ pc \in {"assemble", "wav_open", "make_srt", "write", "done"}
          => FormatTime(total_time) = blocks[Len(blocks)].end_time_string

\* C2 witness: two blocks, the first of them of non-zero length.
C2_Witness ==
    /\ Len(blocks) = 2
    /\ blocks[1].end_time_string # ZeroTimeString
    /\ blocks[2].end_time_string # blocks[2].start_time_string

\* C3: the blocks carry the indices 1, 2, ..., k in that order; when make_srt_blocks
\* returns, every prefix 0..k-1 is matched by a file and prefix k by none, whatever
\* files with higher prefixes exist.
C3_GapStopsScanDenseIndices ==
    /\ \A n \in 1..Len(blocks) : blocks[n].index = n
    /\ pc \in {"assemble", "wav_open", "find_txt", "txt_open"} => i = Len(blocks)
    /\ AssemblyReturned =>
          /\ \A n \in 0..(Len(blocks) - 1) : Matched(n) # {}
          /\ Matched(Len(blocks)) = {}

\* C3 witness: the scan stopped at a gap after one block, with files beyond the gap.
C3_Witness ==
    /\ AssemblyReturned
    /\ Len(blocks) = 1
    /\ Matched(2) # {}

C5_UnpairedBlockAborts ==
    /\ pc = "aborted"
    /\ outcome \notin DiscoveryFailures
    /\ Matched(i) # {}
    /\ (\A f \in Matched(i) : ~IsWav(f)) \/ (\A f \in Matched(i) : ~IsTxt(f))
    => outcome = "UnpairedBlock"

\* C6: the destination is as it was before the run until pair discovery has passed
\* and the assembly has returned, and in every run that fails in discovery or in the
\* assembly.
C6_OutputOnlyAfterAssembly ==
    /\ pc \in {"start", "listing", "assemble", "wav_open", "find_txt", "txt_open",
               "make_srt"} => dest = dest0
    /\ pc = "aborted" /\ outcome \in DiscoveryFailures \cup AssemblyFailures
          => dest = dest0
    /\ dest # dest0 =>
          /\ pc \in {"write", "done"}
          /\ Validate(files) = "ok"
          /\ Matched(Len(blocks)) = {}

\* C6 witness: a run that fails in the assembly after a first block, the destination
\* holding its old content.
C6_Witness ==
    /\ pc = "aborted"
    /\ outcome = "UnpairedBlock"
    /\ Len(blocks) = 1
    /\ dest = [exists |-> TRUE, content |-> OldContent]

\* C7 as stated: a run ends successfully only if the whole blob was written to the
\* destination.
C7_SuccessMeansWritten ==
    outcome = "Success" => dest = [exists |-> TRUE, content |-> Written(output_srt)]

\* C8 as stated: the written blob, split on blank lines and parsed, gives back the
\* assembled blocks.
C8_RoundTrip ==
    pc \in {"write", "done"} => Reparse(Written(output_srt)) = blocks

\* A caption text that survives serialization: not empty, no newline first or last,
\* no blank line inside.
SurvivesText(t) ==
    /\ t # <<>>
    /\ t[1] # NL
    /\ t[Len(t)] # NL
    /\ IndexOf(t, <<NL, NL>>) = 0

\* C8 amended: the round trip holds when every caption text is non-empty, neither
\* begins nor ends with a newline and contains no blank line, and the text of the
\* last block does not end with whitespace.
C8_RoundTripOfCleanTexts ==
    /\ pc \in {"write", "done"}
    /\ \A n \in 1..Len(blocks) : SurvivesText(blocks[n].text)
    /\ blocks # <<>> => ~IsSpace(blocks[Len(blocks)].text[Len(blocks[Len(blocks)].text)])
    => Reparse(Written(output_srt)) = blocks

\* C8 witness: two blocks written, the first with a text that ends with a space, the
\* second with a text of two lines.
C8_Witness ==
    /\ pc = "done"
    /\ Len(blocks) = 2
    /\ blocks[1].text = <<"a", SP>>
    /\ blocks[2].text = <<"a", NL, "b">>
    /\ dest.content = Written(output_srt)

\* C9: every run leaves the loop of make_srt_blocks and ends, with the blocks written
\* or with a failure.
C9_Termination == <>(pc \in {"done", "aborted"})

\* C9 witness: the loop was left through its break after two iterations.
C9_Witness == pc = "make_srt" /\ i = 2

\* C10 as stated: at most one file handle is open at any point.
C10_AtMostOneHandle == Cardinality(handles) <= 1

\* C10 amended: handles are opened one after another and each is released before the
\* next block or the destination is opened, except that the audio handle of a block
\* stays open until the end of its iteration: while the text file of the block is
\* read, the audio handle and the text handle are both open; never more than two.
C10_ScopedHandles ==
    /\ Cardinality(handles) <= 2
    /\ pc \in {"start", "assemble", "make_srt", "done", "aborted"} => handles = {}
    /\ pc = "listing" => handles = {<<"dir", NoString>>}
    /\ pc \in {"wav_open", "find_txt"} => handles = {<<"wav", wav_path>>}
    /\ pc = "txt_open" => handles = {<<"wav", wav_path>>, <<"txt", txt_path>>}
    /\ pc = "write" => handles = {<<"out", NoString>>}

\* C10 witness: the text file of the second block is open together with its audio file.
C10_Witness ==
    /\ pc = "txt_open"
    /\ Len(blocks) = 1
    /\ Cardinality(handles) = 2

====
